---- MODULE Spec2Model ----
(***************************************************************************)
(* Model of swf_to_pdf.py: a run of process_with_args over a working       *)
(* directory.  Strings are sequences of code points, so that slicing       *)
(* (name[:-3]), pathlib's stem/suffix split and Python's string comparison *)
(* are computed as the code computes them.  An optional value (an argparse *)
(* argument that may be None, the FPDF object that may be None) is a       *)
(* sequence of length 0 or 1.  Elapsed-time fields of the progress lines   *)
(* depend on the wall clock only and are left out of the lines.            *)
(* process_with_args never passes `verbose`, so both stages run with       *)
(* verbose=True.  The renderers and the PDF writer are external: a         *)
(* conversion either fails or writes a raster of x_size by y_size pixels,  *)
(* and FPDF's add_page/image/output succeed on every file they are given.  *)
(* The background colour only changes pixel values and is not modelled.    *)
(***************************************************************************)
EXTENDS Integers, Sequences, FiniteSets, TLC

VARIABLES
    args,        \* parsed command line: mode, x_size, y_size, image_format, source_format
    files,       \* working directory: file name -> content
    files0,      \* history: the directory as it was when the run started
    pc,          \* position of the run
    cfg,         \* locals of process_with_args: x_size, y_size, image_suffix, source_suffix
    listing,     \* what iterdir() + filter returned, before the in-place sort;
                 \* kept until the loop over the sorted list starts
    paths,       \* raw_to_images: the sorted list of source paths
    imagepaths,  \* images_to_pdf: the sorted list of image paths
    i,           \* position of the running for loop (1-based index of the next item)
    counter,     \* the local `counter` of the running stage
    number_of_paths, \* the local `number_of_paths` of the running stage
    pdf,         \* the FPDF object: None, or Some([format, pages])
    out,         \* lines printed to stdout
    trace        \* history: calls made, in order

vars == <<args, files, files0, pc, cfg, listing, paths, imagepaths, i, counter,
          number_of_paths, pdf, out, trace>>

----------------------------------------------------------------------------
(* Bounds of the model *)

\* largest number of files in the working directory when the run starts
MaxFiles == 3
\* the same, for the runs that go through every combination of the arguments
MaxArgFiles == 1

----------------------------------------------------------------------------
(* Optional values and strings *)

None == <<>>
Some(v) == <<v>>

\* Python truthiness of an optional int: None and 0 are falsy
TruthyInt(o) == o # None /\ o[1] # 0
\* Python truthiness of an optional str: None and "" are falsy
TruthyStr(o) == o # None /\ o[1] # <<>>

s_svg == <<115, 118, 103>>
s_swf == <<115, 119, 102>>
s_png == <<112, 110, 103>>
s_pdf == <<112, 100, 102>>
s_gif == <<103, 105, 102>>
s_jpeg == <<106, 112, 101, 103>>
s_dot == <<46>>
s_f1 == <<102, 49>>
s_f2 == <<102, 50>>
s_f10 == <<102, 49, 48>>
s_f20 == <<102, 50, 48>>

\* Python's str < str: lexicographic by code point, a proper prefix is smaller
RECURSIVE StrLess(_, _)
StrLess(a, b) ==
    IF b = <<>> THEN FALSE
    ELSE IF a = <<>> THEN TRUE
    ELSE IF a[1] # b[1] THEN a[1] < b[1]
    ELSE StrLess(Tail(a), Tail(b))

\* index of the last "." of a name, 0 when there is none (str.rfind + 1)
RECURSIVE LastDot(_, _)
LastDot(name, k) ==
    IF k = 0 THEN 0
    ELSE IF name[k] = 46 THEN k
    ELSE LastDot(name, k - 1)

\* pathlib: PurePath.suffix, the last dot-separated part with its dot; empty
\* when the only dot leads or ends the name
suffix(name) ==
    LET k == LastDot(name, Len(name))
    IN IF k > 1 /\ k < Len(name) THEN SubSeq(name, k, Len(name)) ELSE <<>>

\* pathlib: PurePath.stem, the name without its suffix
stem(name) ==
    LET k == LastDot(name, Len(name))
    IN IF k > 1 /\ k < Len(name) THEN SubSeq(name, 1, k - 1) ELSE name

\* Python's s[:-n] for n > 0
DropLast(s, n) == IF Len(s) <= n THEN <<>> ELSE SubSeq(s, 1, Len(s) - n)

Range(s) == {s[k] : k \in 1..Len(s)}

RECURSIVE Perms(_)
Perms(S) ==
    IF S = {} THEN {<<>>}
    ELSE UNION {{<<x>> \o p : p \in Perms(S \ {x})} : x \in S}

----------------------------------------------------------------------------
(* Program constants: the defaults set in __main__ *)

default_source_suffix == s_svg
default_image_suffix == s_png
default_x_size == 2480
default_y_size == 3508

\* Path.cwd().parts of the working directory /home/d
cwd_parts == << <<47>>, <<104, 111, 109, 101>>, <<100>> >>

----------------------------------------------------------------------------
(* path_sorter and the sorted directory listing *)

\* mutant: the stems compared as strings only, the length ignored
path_sorter_lexicographic(a, b) ==
    IF StrLess(stem(a), stem(b)) THEN -1
    ELSE IF StrLess(stem(b), stem(a)) THEN 1
    ELSE 0

path_sorter(a, b) ==
    IF Len(stem(a)) < Len(stem(b)) THEN -1
    ELSE IF Len(stem(a)) > Len(stem(b)) THEN 1
    ELSE IF StrLess(stem(a), stem(b)) THEN -1
    ELSE IF StrLess(stem(b), stem(a)) THEN 1
    ELSE 0

\* list.sort(key=cmp_to_key(path_sorter)): a stable sort that places x before
\* the first element it compares smaller than
RECURSIVE Insert(_, _)
Insert(x, s) ==
    IF s = <<>> THEN <<x>>
    ELSE IF path_sorter(x, s[1]) < 0 THEN <<x>> \o s
    ELSE <<s[1]>> \o Insert(x, Tail(s))

RECURSIVE sort(_)
sort(l) ==
    IF l = <<>> THEN <<>>
    ELSE Insert(l[Len(l)], sort(SubSeq(l, 1, Len(l) - 1)))

\* [path for path in Path.cwd().iterdir() if path.suffix == ("." + ext)]:
\* the entries with that suffix, in any order iterdir() may yield them
listings(fs, ext) == Perms({n \in DOMAIN fs : suffix(n) = s_dot \o ext})

----------------------------------------------------------------------------
(* Inputs *)

Stems == {s_f1, s_f2, s_f10, s_f20}
Suffixes == {s_svg, s_swf, s_png}
InitialNames == {st \o s_dot \o sx : st \in Stems, sx \in Suffixes}

\* content of a file: the pixel size of a raster, the page count of a document
SourceContent == [w |-> 0, h |-> 0, pages |-> 0]
Raster(w, h) == [w |-> w, h |-> h, pages |-> 0]
\* pixel sizes of the rasters already in the directory
PreSizes == {<<2, 3>>}

ContentsFor(name) ==
    IF suffix(name) = s_dot \o s_png
    THEN {Raster(sz[1], sz[2]) : sz \in PreSizes}
    ELSE {SourceContent}

\* the directories of at most `most` files
Dirs(most) ==
    UNION {{f \in [D -> {SourceContent} \cup {Raster(sz[1], sz[2]) : sz \in PreSizes}] :
              \A n \in D : f[n] \in ContentsFor(n)} :
           D \in {D \in SUBSET InitialNames : Cardinality(D) <= most}}

Modes == {None, Some(-1), Some(0), Some(1), Some(2), Some(3), Some(4)}
SourceFormats == {None, Some(s_swf), Some(s_svg), Some(s_gif), Some(<<>>)}
ImageFormats == {None, Some(s_jpeg)}
XSizes == {None, Some(2)}
YSizes == {None, Some(3)}

\* every combination of the arguments
Args ==
    [mode : Modes, x_size : XSizes, y_size : YSizes,
     image_format : ImageFormats, source_format : SourceFormats]

\* the combinations that differ in what the two stages do: every mode and
\* size, both source suffixes
RunArgs ==
    [mode : Modes, x_size : XSizes, y_size : YSizes,
     image_format : {None}, source_format : {None, Some(s_swf)}]

\* exit status of swfrender / outcome of cairosvg.svg2png (0: rendered)
RenderOutcomes == {0, 1}

----------------------------------------------------------------------------
(* Printed lines and recorded calls *)

Line(verb, first, second, name) ==
    [verb |-> verb, first |-> first, second |-> second, name |-> name]

Event(ev, name, res) == [ev |-> ev, name |-> name, res |-> res]

----------------------------------------------------------------------------
(* process_with_args: resolution of the arguments and mode dispatch *)

resolve_size(arg, default) == IF TruthyInt(arg) THEN arg[1] ELSE default

\* image_suffix: both branches of `if args.image_format` assign the default
resolve_image_suffix(arg, default) == IF TruthyStr(arg) THEN default ELSE default

\* mutant: the allow-list check left out
resolve_source_suffix_unchecked(arg, default) ==
    IF TruthyStr(arg) THEN arg[1] ELSE default

resolve_source_suffix(arg, default) ==
    IF TruthyStr(arg)
    THEN IF arg[1] \in {s_swf, s_svg} THEN arg[1] ELSE default
    ELSE default

\* the lines process_with_args prints while resolving the arguments
resolve_messages(a) ==
    (IF TruthyStr(a.image_format)
     THEN <<Line("image format is reset to png", 0, 0, <<>>)>> ELSE <<>>)
    \o
    (IF TruthyStr(a.source_format) /\ a.source_format[1] \notin {s_swf, s_svg}
     THEN <<Line("Only swf or svg is supported", 0, 0, default_source_suffix)>>
     ELSE <<>>)

\* mutant: mode 1 runs the document stage too
dispatch_mode1_runs_all(mode) ==
    IF TruthyInt(mode)
    THEN IF mode[1] = 2 THEN <<"images_to_pdf", "pdf_export_to_disk">>
         ELSE IF mode[1] \in {1, 3}
              THEN <<"raw_to_images", "images_to_pdf", "pdf_export_to_disk">>
              ELSE <<>>
    ELSE <<"raw_to_images", "images_to_pdf", "pdf_export_to_disk">>

\* the functions process_with_args calls for a --mode value, in order
dispatch(mode) ==
    IF TruthyInt(mode)
    THEN IF mode[1] = 1 THEN <<"raw_to_images">>
         ELSE IF mode[1] = 2 THEN <<"images_to_pdf", "pdf_export_to_disk">>
         ELSE IF mode[1] = 3
              THEN <<"raw_to_images", "images_to_pdf", "pdf_export_to_disk">>
              ELSE <<>>
    ELSE <<"raw_to_images", "images_to_pdf", "pdf_export_to_disk">>

\* where process_with_args goes when the call `stage` returns
after(stage) ==
    LET calls == dispatch(args.mode)
        k == CHOOSE k \in 1..Len(calls) : calls[k] = stage
    IN IF k < Len(calls) THEN calls[k + 1] ELSE "done"

first_call == IF dispatch(args.mode) = <<>> THEN "done" ELSE dispatch(args.mode)[1]

----------------------------------------------------------------------------
(* raw_to_images *)

\* mutant: the dot cut off with the suffix
raster_name_drop4(name, image_suffix) == DropLast(name, 4) \o image_suffix

\* path.name[:-3] + image_suffix (and str(path)[:-3] + image_suffix, whose
\* directory part is the working directory)
raster_name(name, image_suffix) == DropLast(name, 3) \o image_suffix

\* mutant: no except clause around the svg conversion
convert_unguarded(source_suffix, rc) ==
    IF source_suffix = s_svg
    THEN [result |-> 0, wrote |-> rc = 0, raised |-> rc # 0]
    ELSE IF source_suffix = s_swf
    THEN [result |-> rc, wrote |-> rc = 0, raised |-> FALSE]
    ELSE [result |-> 0, wrote |-> FALSE, raised |-> FALSE]

\* one input through the renderer: `result` as the loop body leaves it, whether
\* the raster was written, and whether an exception leaves the loop.
\* rc is swfrender's exit status, or 1 when cairosvg/PIL raises.
convert(source_suffix, rc) ==
    IF source_suffix = s_svg
    THEN [result |-> IF rc = 0 THEN 0 ELSE 1, wrote |-> rc = 0, raised |-> FALSE]
    ELSE IF source_suffix = s_swf
    THEN [result |-> rc, wrote |-> rc = 0, raised |-> FALSE]
    ELSE [result |-> 0, wrote |-> FALSE, raised |-> FALSE]

\* the progress line of one item: format(number_of_paths, counter, ...)
progress_line(result, n, c, name, image_suffix) ==
    IF result = 0
    THEN Line("created", n, c, raster_name(name, image_suffix))
    ELSE Line("could not be created", n, c, raster_name(name, image_suffix))

write_file(fs, name, content) ==
    [n \in DOMAIN fs \cup {name} |-> IF n = name THEN content ELSE fs[n]]

----------------------------------------------------------------------------
(* images_to_pdf and pdf_export_to_disk *)

\* mutant: the document created before the emptiness test
new_pdf_always(n, x_size, y_size) ==
    Some([format |-> <<x_size, y_size>>, pages |-> <<>>])

\* FPDF(unit="pt", format=[int(x_size), int(y_size)]) when images were found,
\* None otherwise
new_pdf(n, x_size, y_size) ==
    IF n # 0 THEN Some([format |-> <<x_size, y_size>>, pages |-> <<>>]) ELSE None

\* pdf.add_page(); pdf.image(imagepath.name, 0, 0): a page of the document's
\* format, the image at (0, 0) in its own size (1 pixel = 1 pt at unit "pt")
add_page_image(doc, name, x, y) ==
    [doc EXCEPT !.pages = Append(@,
        [w |-> doc.format[1], h |-> doc.format[2], image |-> name,
         x |-> x, y |-> y, iw |-> files[name].w, ih |-> files[name].h])]

\* mutant: the first part of the working directory's path instead of the last
pdf_filename_first_part == cwd_parts[1] \o s_dot \o s_pdf

pdf_filename == cwd_parts[Len(cwd_parts)] \o s_dot \o s_pdf

----------------------------------------------------------------------------
(* The run *)

Init ==
    /\ \/ args \in RunArgs /\ files \in Dirs(MaxFiles)
       \/ args \in Args /\ files \in Dirs(MaxArgFiles)
    /\ files0 = files
    /\ pc = "process_with_args"
    /\ cfg = [x_size |-> 0, y_size |-> 0, image_suffix |-> <<>>, source_suffix |-> <<>>]
    /\ listing = <<>>
    /\ paths = <<>>
    /\ imagepaths = <<>>
    /\ i = 0
    /\ counter = 0
    /\ number_of_paths = 0
    /\ pdf = None
    /\ out = <<>>
    /\ trace = <<>>

\* process_with_args up to its first call
ProcessWithArgs ==
    /\ pc = "process_with_args"
    /\ cfg' = [x_size |-> resolve_size(args.x_size, default_x_size),
               y_size |-> resolve_size(args.y_size, default_y_size),
               image_suffix |-> resolve_image_suffix(args.image_format, default_image_suffix),
               source_suffix |-> resolve_source_suffix(args.source_format, default_source_suffix)]
    /\ out' = out \o resolve_messages(args)
    /\ pc' = first_call
    /\ UNCHANGED <<args, files, files0, listing, paths, imagepaths, i, counter,
                   number_of_paths, pdf, trace>>

\* raw_to_images up to the for loop; the whole call when nothing matches
RawToImagesBegin ==
    /\ pc = "raw_to_images"
    /\ \E l \in listings(files, cfg.source_suffix) :
         /\ listing' = l
         /\ paths' = sort(l)
         /\ number_of_paths' = Len(l)
         /\ trace' = Append(trace, Event("raw_to_images", cfg.source_suffix, Len(l)))
         /\ IF Len(l) # 0
            THEN /\ counter' = 1
                 /\ i' = 1
                 /\ out' = Append(out, Line("* Generating images *", 0, 0, <<>>))
                 /\ pc' = "raw_loop"
            ELSE /\ out' = out \o <<Line("* Generating images *", 0, 0, <<>>),
                                    Line("No files were found.", 0, 0, cfg.source_suffix)>>
                 /\ pc' = after("raw_to_images")
                 /\ UNCHANGED <<counter, i>>
    /\ UNCHANGED <<args, files, files0, cfg, imagepaths, pdf>>

\* one iteration of the loop of raw_to_images; the return after the last one
RawToImagesItem ==
    /\ pc = "raw_loop"
    /\ \E rc \in RenderOutcomes :
         LET path == paths[i]
             r == convert(cfg.source_suffix, rc)
         IN /\ trace' = Append(trace, Event("convert", path, r.result))
            /\ files' = IF r.wrote
                        THEN write_file(files, raster_name(path, cfg.image_suffix),
                                        Raster(cfg.x_size, cfg.y_size))
                        ELSE files
            /\ IF r.raised
               THEN /\ pc' = "error"
                    /\ UNCHANGED <<out, counter, i>>
               ELSE /\ out' = Append(out, progress_line(r.result, number_of_paths, counter,
                                                        path, cfg.image_suffix))
                    /\ counter' = counter + 1
                    /\ i' = i + 1
                    /\ pc' = IF i = Len(paths) THEN after("raw_to_images") ELSE "raw_loop"
    /\ listing' = <<>>
    /\ UNCHANGED <<args, files0, cfg, paths, imagepaths, number_of_paths, pdf>>

\* images_to_pdf up to the for loop; the whole call when no image is found
ImagesToPdfBegin ==
    /\ pc = "images_to_pdf"
    /\ \E l \in listings(files, cfg.image_suffix) :
         /\ listing' = l
         /\ imagepaths' = sort(l)
         /\ number_of_paths' = Len(l)
         /\ trace' = Append(trace, Event("images_to_pdf", cfg.image_suffix, Len(l)))
         /\ pdf' = new_pdf(Len(l), cfg.x_size, cfg.y_size)
         /\ IF Len(l) # 0
            THEN /\ counter' = 1
                 /\ i' = 1
                 /\ out' = Append(out, Line("* Generating pdf from images *", 0, 0, <<>>))
                 /\ pc' = "pdf_loop"
            ELSE /\ out' = out \o <<Line("* Generating pdf from images *", 0, 0, <<>>),
                                    Line("No images were found.", 0, 0, <<>>)>>
                 /\ pc' = after("images_to_pdf")
                 /\ UNCHANGED <<counter, i>>
    /\ UNCHANGED <<args, files, files0, cfg, paths>>

\* one iteration of the loop of images_to_pdf; the return after the last one
ImagesToPdfItem ==
    /\ pc = "pdf_loop"
    /\ pdf' = Some(add_page_image(pdf[1], imagepaths[i], 0, 0))
    /\ out' = Append(out, Line("page", counter, number_of_paths, imagepaths[i]))
    /\ counter' = counter + 1
    /\ i' = i + 1
    /\ pc' = IF i = Len(imagepaths) THEN after("images_to_pdf") ELSE "pdf_loop"
    /\ listing' = <<>>
    /\ UNCHANGED <<args, files, files0, cfg, paths, imagepaths, number_of_paths, trace>>

\* pdf_export_to_disk(pdf)
PdfExportToDisk ==
    /\ pc = "pdf_export_to_disk"
    /\ IF pdf # None
       THEN /\ files' = write_file(files, pdf_filename,
                                   [w |-> 0, h |-> 0, pages |-> Len(pdf[1].pages)])
            /\ trace' = trace \o <<Event("pdf_export_to_disk", <<>>, 1),
                                   Event("pdf.output", pdf_filename, Len(pdf[1].pages))>>
       ELSE /\ trace' = Append(trace, Event("pdf_export_to_disk", <<>>, 0))
            /\ UNCHANGED files
    /\ pc' = after("pdf_export_to_disk")
    /\ UNCHANGED <<args, files0, cfg, listing, paths, imagepaths, i, counter,
                   number_of_paths, pdf, out>>

Next ==
    \/ ProcessWithArgs
    \/ RawToImagesBegin
    \/ RawToImagesItem
    \/ ImagesToPdfBegin
    \/ ImagesToPdfItem
    \/ PdfExportToDisk

Spec == Init /\ [][Next]_vars

----------------------------------------------------------------------------
(* Vocabulary of the properties *)

EventsOf(ev) == SelectSeq(trace, LAMBDA e : e.ev = ev)
Called(ev) == \E k \in 1..Len(trace) : trace[k].ev = ev

\* the conversion attempts made so far, in order
Attempts == EventsOf("convert")

\* the progress lines of raw_to_images printed so far, in order
ProgressLines ==
    SelectSeq(out, LAMBDA l : l.verb \in {"created", "could not be created"})

Printed(verb) == \E k \in 1..Len(out) : out[k].verb = verb

\* raw_to_images was called and has returned
RawFinished == Called("raw_to_images") /\ pc \notin {"raw_to_images", "raw_loop", "error"}

IsRaster(n) == suffix(n) = <<46, 112, 110, 103>>
Rasters(fs) == {n \in DOMAIN fs : IsRaster(n)}

\* seq holds exactly the entries of the directory with suffix "." + ext, once
\* each, shorter stems first and stems of one length in lexicographic order
InStemOrder(seq, ext) ==
    /\ Range(seq) = {n \in DOMAIN files : suffix(n) = <<46>> \o ext}
    /\ \A j, k \in 1..Len(seq) : j < k =>
         /\ seq[j] # seq[k]
         /\ \/ Len(stem(seq[j])) < Len(stem(seq[k]))
            \/ /\ Len(stem(seq[j])) = Len(stem(seq[k]))
               /\ StrLess(stem(seq[j]), stem(seq[k]))

StemsOf(seq) == [k \in 1..Len(seq) |-> stem(seq[k])]

----------------------------------------------------------------------------
(* C1 *)

\* C1: mode 1 runs only raw_to_images and never builds or exports a document;
\* mode 2 runs only images_to_pdf and pdf_export_to_disk and attempts no
\* conversion; mode 3 and an unset mode run both, and every conversion attempt
\* precedes the collection of the image list and the export.
C1_ModeDispatch ==
    /\ args.mode = Some(1) =>
         /\ ~Called("images_to_pdf") /\ ~Called("pdf_export_to_disk")
         /\ ~Called("pdf.output") /\ pdf = None
         /\ pc = "done" => Called("raw_to_images")
    /\ args.mode = Some(2) =>
         /\ ~Called("raw_to_images") /\ ~Called("convert")
         /\ Rasters(files) = Rasters(files0)
         /\ pc = "done" => Called("images_to_pdf") /\ Called("pdf_export_to_disk")
    /\ args.mode \in {Some(3), None} =>
         /\ \A j, k \in 1..Len(trace) :
              /\ trace[j].ev \in {"raw_to_images", "convert"}
              /\ trace[k].ev \in {"images_to_pdf", "pdf_export_to_disk", "pdf.output"}
              => j < k
         /\ Called("images_to_pdf") => Len(Attempts) = Len(paths)
         /\ pc = "done" =>
              /\ Called("raw_to_images") /\ Called("images_to_pdf")
              /\ Called("pdf_export_to_disk")
              /\ trace[Len(trace)].ev \in {"pdf_export_to_disk", "pdf.output"}

C1_Witness ==
    /\ pc = "done" /\ args.mode = Some(3)
    /\ Len(Attempts) >= 2 /\ Called("pdf.output")

----------------------------------------------------------------------------
(* C2 *)

\* C2: for every given --mode value outside {1, 2, 3}, 0 and negative values
\* included, process_with_args takes no action: no conversion, no raster, no
\* document built or exported, no error.
C2_UnknownModeNoAction ==
    (args.mode # None /\ args.mode[1] \notin {1, 2, 3}) =>
        /\ ~Called("convert")
        /\ files = files0
        /\ pdf = None
        /\ ~Called("pdf.output")
        /\ pc # "error"

----------------------------------------------------------------------------
(* C3 *)

\* C3: the paths raw_to_images and images_to_pdf iterate over are exactly the
\* directory entries with the target suffix, without duplicates, shorter stems
\* first and equal-length stems in lexicographic order, whatever order the
\* listing came in; stems f1, f2, f10, f20 come out in that order.
C3_SortedPaths ==
    /\ pc = "raw_loop" =>
         /\ InStemOrder(paths, cfg.source_suffix)
         /\ Range(StemsOf(paths)) = {s_f1, s_f2, s_f10, s_f20}
            => StemsOf(paths) = <<s_f1, s_f2, s_f10, s_f20>>
    /\ pc = "pdf_loop" =>
         /\ InStemOrder(imagepaths, cfg.image_suffix)
         /\ Range(StemsOf(imagepaths)) = {s_f1, s_f2, s_f10, s_f20}
            => StemsOf(imagepaths) = <<s_f1, s_f2, s_f10, s_f20>>

C3_Witness ==
    /\ pc = "raw_loop"
    /\ StemsOf(listing) = <<s_f10, s_f2, s_f1>>
    /\ StemsOf(paths) = <<s_f1, s_f2, s_f10>>

----------------------------------------------------------------------------
(* C4 *)

\* C4: whichever conversions fail, raw_to_images attempts every input exactly
\* once in sorted order, a successful input has its raster, a failed input one
\* failure line, and no error leaves raw_to_images.
C4_BatchResilience ==
    /\ pc # "error"
    /\ Len(Attempts) <= Len(paths)
    /\ \A k \in 1..Len(Attempts) : Attempts[k].name = paths[k]
    /\ Len(ProgressLines) = Len(Attempts)
    /\ \A k \in 1..Len(Attempts) :
         /\ Attempts[k].res = 0 =>
              /\ ProgressLines[k].verb = "created"
              /\ \E n \in Rasters(files) :
                   /\ stem(n) = stem(paths[k])
                   /\ files[n] = Raster(cfg.x_size, cfg.y_size)
         /\ Attempts[k].res # 0 => ProgressLines[k].verb = "could not be created"
    /\ RawFinished => Len(Attempts) = Len(paths)

C4_Witness ==
    /\ RawFinished
    /\ Len(Attempts) = 3
    /\ Attempts[1].res = 0 /\ Attempts[2].res # 0 /\ Attempts[3].res = 0

----------------------------------------------------------------------------
(* C5 *)

\* C5 as stated: after the raster stage every successfully converted source
\* has exactly one raster of its stem, and no raster in the directory has a
\* stem other than that of a source attempted in the run.
C5_PairingAsStated ==
    RawFinished =>
        /\ \A k \in 1..Len(Attempts) : Attempts[k].res = 0 =>
             Cardinality({n \in Rasters(files) : stem(n) = stem(Attempts[k].name)}) = 1
        /\ \A n \in Rasters(files) :
             \E k \in 1..Len(Attempts) : stem(Attempts[k].name) = stem(n)

\* C5 amended: every successfully converted source has exactly one raster of
\* its stem, and every raster in the directory either was there before the run
\* or has the stem of a source attempted in the run.
C5_Pairing ==
    /\ \A k \in 1..Len(Attempts) : Attempts[k].res = 0 =>
         Cardinality({n \in Rasters(files) : stem(n) = stem(Attempts[k].name)}) = 1
    /\ \A n \in Rasters(files) :
         \/ n \in DOMAIN files0
         \/ \E k \in 1..Len(Attempts) : stem(Attempts[k].name) = stem(n)

C5_Witness ==
    /\ RawFinished
    /\ \E k \in 1..Len(Attempts) : Attempts[k].res = 0
    /\ \E n \in Rasters(files0) :
         \A k \in 1..Len(Attempts) : stem(Attempts[k].name) # stem(n)

----------------------------------------------------------------------------
(* C6 *)

\* C6: every page of the document has exactly the pixel size of the raster
\* placed on it, and the raster is placed at (0, 0), also when the rasters
\* were not made with the run's x_size and y_size.
C6_PageSizeFidelity ==
    pdf # None =>
        \A k \in 1..Len(pdf[1].pages) :
            LET p == pdf[1].pages[k]
            IN p.x = 0 /\ p.y = 0 /\ p.w = p.iw /\ p.h = p.ih

----------------------------------------------------------------------------
(* C7 *)

\* C7 as stated: with no file of the source extension in the directory, a run
\* in mode images, pdf or images+pdf writes no raster, builds no document and
\* writes no document file.
C7_EmptyAsStated ==
    (/\ pc = "done"
     /\ args.mode \in {None, Some(1), Some(2), Some(3)}
     /\ \A n \in DOMAIN files0 : suffix(n) # <<46>> \o cfg.source_suffix)
    => /\ Rasters(files) = Rasters(files0)
       /\ pdf = None
       /\ DOMAIN files = DOMAIN files0

\* C7 amended: a raster stage that finds no file of the source extension
\* prints its notice, attempts nothing and writes no raster; a document stage
\* that finds no file of the image extension prints its notice, returns None
\* and nothing is exported; so a directory with neither writes nothing in any
\* mode, and the run ends without error.
C7_EmptyStage ==
    /\ pc # "error"
    /\ \A k \in 1..Len(trace) :
         /\ (trace[k].ev = "raw_to_images" /\ trace[k].res = 0) =>
              /\ Printed("No files were found.")
              /\ ~Called("convert")
              /\ Rasters(files) = Rasters(files0)
         /\ (trace[k].ev = "images_to_pdf" /\ trace[k].res = 0) =>
              /\ Printed("No images were found.")
              /\ pdf = None
              /\ ~Called("pdf.output")
              /\ DOMAIN files = DOMAIN files0
    /\ (/\ \A n \in DOMAIN files0 : suffix(n) # <<46>> \o cfg.source_suffix
        /\ Rasters(files0) = {}
        /\ pc = "done"
        /\ args.mode \in {None, Some(1), Some(2), Some(3)})
       => /\ files = files0
          /\ pdf = None
          /\ Printed("No files were found.") \/ Printed("No images were found.")

C7_Witness ==
    /\ pc = "done" /\ args.mode = None
    /\ DOMAIN files0 # {}
    /\ Printed("No files were found.") /\ Printed("No images were found.")
    /\ files = files0

----------------------------------------------------------------------------
(* C8 *)

\* C8: when images_to_pdf finds N >= 1 images the document has N pages, page k
\* is backed by the k-th file of the length-then-lexicographic order, no file
\* backs two pages, the compositor writes nothing to disk, and the document is
\* written exactly once, after the last page, as <working directory name>.pdf.
C8_DocumentComposition ==
    /\ pc \in {"images_to_pdf", "pdf_loop", "pdf_export_to_disk"} =>
         /\ ~Called("pdf.output")
         /\ <<100, 46, 112, 100, 102>> \notin DOMAIN files
    /\ pc = "pdf_loop" => \A n \in DOMAIN files : n \in DOMAIN files0 \/ IsRaster(n)
    /\ (pc \in {"pdf_export_to_disk", "done"} /\ Len(imagepaths) >= 1) =>
         /\ pdf # None
         /\ Len(pdf[1].pages) = Len(imagepaths)
         /\ InStemOrder(imagepaths, <<112, 110, 103>>)
         /\ \A k \in 1..Len(imagepaths) : pdf[1].pages[k].image = imagepaths[k]
         /\ \A j, k \in 1..Len(imagepaths) :
              j # k => pdf[1].pages[j].image # pdf[1].pages[k].image
    /\ (pc = "done" /\ Len(imagepaths) >= 1) =>
         /\ Len(EventsOf("pdf.output")) = 1
         /\ trace[Len(trace)] =
                Event("pdf.output", <<100, 46, 112, 100, 102>>, Len(imagepaths))
         /\ <<100, 46, 112, 100, 102>> \in DOMAIN files
         /\ files[<<100, 46, 112, 100, 102>>].pages = Len(imagepaths)

C8_Witness ==
    /\ pc = "done"
    /\ Len(imagepaths) = 3
    /\ StemsOf(imagepaths) = <<s_f2, s_f10, s_f20>>
    /\ Called("pdf.output")

----------------------------------------------------------------------------
(* C9 *)

\* C9: the progress line of the k-th input of N reports the position k first
\* and the total N second, the position growing by one per item, and the
\* success and failure lines differ in the verb only.
C9_ProgressPositionFirst ==
    \A k \in 1..Len(ProgressLines) :
        /\ ProgressLines[k].first = k
        /\ ProgressLines[k].second = Len(paths)
        /\ ProgressLines[k].name = DropLast(paths[k], 3) \o cfg.image_suffix

----------------------------------------------------------------------------
(* C10 *)

====
